---- MODULE Spec2Model ----
(***************************************************************************)
(* DevLog-AIGC: the report pipeline of ReportOrchestrator.run              *)
(* (orchestrator.py) with the AI service it drives (ai_summarizer.py).     *)
(*                                                                         *)
(* One project directory is modelled across several runs.  The two files   *)
(* a run owns (project_log.jsonl, project_memory.md) persist between runs; *)
(* everything else is local to a run.  Every external call (git, the LLM   *)
(* provider, the filesystem, SMTP, PrinceXML) is a nondeterministic choice *)
(* over the results its wrapper in the source can hand back.               *)
(*                                                                         *)
(* Text is abstracted: None is the string "None", and a text is one of a   *)
(* few tokens chosen so that Python truthiness and str.strip() can be told *)
(* apart ("" empty, " " whitespace only, "txt" real text).                 *)
(***************************************************************************)
EXTENDS Integers, Sequences, FiniteSets, TLC

\* ------------------------------------------------------------------ bounds
MaxRuns == 2
MaxCommits == 2

\* --------------------------------------------------------------- constants
\* ai_summarizer.py:157  len(diff_content) > 100000
DiffLimit == 100000
\* ai_summarizer.py:161  the fixed placeholder (the source text is Chinese:
\* "Diff content too long, summary skipped")
Placeholder == "(Diff too long, summary skipped)"

None == "None"
\* git_utils.run_git_command returns None on failure; a diff is modelled by
\* its length, None by NoDiff
NoDiff == 0 - 1

\* Python truthiness of an Optional[str]
Truthy(s) == s /= None /\ s /= ""

\* str.strip() on the text tokens
Strip(s) == IF s = " " THEN "" ELSE s

\* what an LLM provider can answer (a raised exception is modelled apart)
MapResponses == {"", " ", "txt"}
Responses == {"", "txt"}

\* lengths of the diffs the model feeds to the Map stage
DiffLens == {0, DiffLimit, DiffLimit + 1}

LlmIds == {"gemini", "deepseek", "mock"}
Styles == {"default", "novel"}
AttachFormats == {"html", "pdf"}
EmailLists == {<<>>, <<"dev@example.com">>}

VARIABLES
    \* ---- persisted in the project data directory
    logFile,            \* project_log.jsonl: sequence of entries (<<>> = no file)
    memFile,            \* project_memory.md: its text, None when missing
    \* ---- the run
    runs,               \* number of runs started so far
    pc,                 \* position inside run()
    ctx,                \* RunContext
    ctx0,               \* RunContext as handed to the orchestrator
    repoValid,          \* whether the target is a git work tree (environment)
    ai_service,         \* TRUE when AIService was constructed
    project_readme,
    previous_summary,
    commits,            \* parsed commits: [hash, merge]
    stats,
    i,                  \* Map loop position (1-based index into commits)
    diff_summaries_list,
    ai_diff_summary,    \* the joined Map output as its lines, <<>> for None
    ai_summary,
    html_filename_full_path,
    new_compressed_memory,
    public_article,
    article_full_path,
    attachment_to_send,
    pdf_full_path,      \* what convert_md_to_pdf returned, None when it failed
    email_success,
    \* ---- observation (history of this run)
    logAtStart,
    memAtStart,
    calls,              \* provider calls per stage, the memory handed to the
                        \* Style stage, and mails handed to SMTP
    mapLog,             \* per processed commit: whether a diff was fetched, the
                        \* length of a non-empty diff, whether a summary was
                        \* requested, whether the provider was called, and the
                        \* non-empty summary that came back (else None)
    trail               \* steps of run() that were carried out, in order

VARIABLES
    \* ---- the plugin manager (hooks/manager.py)
    plugins,            \* PluginManager.plugins, in registration order
    hookCall,           \* observation: the last load, trigger or filter call
    \* ---- the provider registry (llm/provider_abc.py) and its factory
    PROVIDER_REGISTRY,  \* provider id -> registered class
    regCall,            \* observation: the last registration or resolution
    \* ---- notification (notifiers/factory.py, orchestrator.py step 13)
    active_list,        \* the notifiers get_active_notifiers returned
    notifyCall,         \* observation: the last factory call or dispatch
    \* ---- the data layer (cli.py, data_sources/, git_utils.py)
    dataCall            \* observation: the last call of a data-layer function

\* the state of one run of the orchestrator and of its project directory
runVars == <<logFile, memFile, runs, pc, ctx, ctx0, repoValid, ai_service,
             project_readme, previous_summary, commits, stats, i,
             diff_summaries_list, ai_diff_summary, ai_summary,
             html_filename_full_path, new_compressed_memory, public_article,
             article_full_path, attachment_to_send,
             pdf_full_path, email_success,
             logAtStart, memAtStart, calls, mapLog, trail>>

hookVars == <<plugins, hookCall>>
regVars == <<PROVIDER_REGISTRY, regCall>>
notifyVars == <<active_list, notifyCall>>
dataVars == <<dataCall>>

\* everything run() of orchestrator.py never touches
ext == <<hookVars, regVars, notifyVars, dataVars>>

\* what the plugin manager, the registry and the notifiers leave alone
offHook == <<runVars, regVars, notifyVars, dataVars>>
offRegistry == <<runVars, hookVars, notifyVars, dataVars>>
offNotify == <<runVars, hookVars, regVars, dataVars>>
\* what the functions of the data layer leave alone
offData == <<runVars, hookVars, regVars, notifyVars>>

vars == <<runVars, ext>>

persist == <<logFile, memFile>>
locals == <<project_readme, previous_summary, commits, stats, i,
            diff_summaries_list, ai_diff_summary, ai_summary,
            html_filename_full_path, new_compressed_memory, public_article,
            article_full_path, attachment_to_send,
            pdf_full_path, email_success>>

NoCalls ==
    [map |-> <<>>, reduce |-> 0, distill |-> 0, style |-> 0,
     style_memory |-> None, email |-> 0]

\* context.py:10-39
RunContext ==
    [repo_path : {"repo"}, project_data_path : {"data/repo"},
     llm_id : LlmIds, style : Styles, attach_format : AttachFormats,
     commit_range_arg : {"--since=1 day ago"}, time_range_desc : {"1 day ago"},
     email_list : EmailLists, no_ai : BOOLEAN, no_browser : BOOLEAN]

\* the contexts the model hands to the orchestrator: the combinations of
\* provider, style, attachment format, recipients and no-AI flag that run()
\* can tell apart.  The browser is opened in console runs and suppressed in
\* mail runs; the attachment format is read only when there are recipients
\* (orchestrator.py:191, 259-270) and is html without them; with the pdf
\* format the article is asked for whatever the style is (orchestrator.py:
\* 191-195), so pdf comes with one style; the provider id is read only when
\* AI is requested (orchestrator.py:48-51)
Contexts ==
    {c \in RunContext :
        /\ c.no_browser = (c.email_list /= <<>>)
        /\ c.email_list = <<>> => c.attach_format = "html"
        /\ c.attach_format = "pdf" => c.style = "novel"
        /\ c.no_ai => c.llm_id = "deepseek"}

\* no plugin-manager call has been made yet
NoHookCall ==
    [op |-> "none", event |-> "", listing |-> <<>>, before |-> <<>>,
     initial |-> <<>>, value |-> <<>>, log |-> <<>>, outcome |-> "returned"]

\* llm/provider_abc.py:11  PROVIDER_REGISTRY = {}
EmptyRegistry == [provider_id \in {} |-> ""]

\* no registry call has been made yet
NoRegCall ==
    [op |-> "none", provider_id |-> "", cls |-> "", before |-> EmptyRegistry,
     configured |-> FALSE, outcome |-> "returned"]

\* no notifier call has been made yet
NoNotifyCall ==
    [op |-> "none", email_list |-> <<>>,
     feishu |-> [FEISHU_APP_ID |-> FALSE, FEISHU_APP_SECRET |-> FALSE,
                 FEISHU_WEBHOOK |-> FALSE],
     init_raises |-> {}, is_enabled_raises |-> {},
     attempted |-> <<>>, results |-> <<>>, outcome |-> "returned"]

\* no data-layer function has been called yet
NoDataCall ==
    [op |-> "none", locator |-> <<>>, kept |-> FALSE, repo_path |-> <<>>,
     source |-> "", phrase |-> <<>>, since |-> 0, lines |-> <<>>,
     stats |-> [additions |-> 0, deletions |-> 0, files_changed |-> 0,
                file_stats |-> <<>>],
     outcome |-> "returned"]

Init ==
    /\ logFile = <<>>
    /\ memFile = None
    /\ runs = 0
    /\ pc = "idle"
    /\ ctx \in {c \in Contexts : c.llm_id = "deepseek" /\ c.style = "default"
                    /\ c.attach_format = "html" /\ c.no_ai /\ c.no_browser}
    /\ ctx0 = ctx
    /\ repoValid = TRUE
    /\ ai_service = FALSE
    /\ project_readme = None
    /\ previous_summary = None
    /\ commits = <<>>
    /\ stats = [additions |-> 0, deletions |-> 0]
    /\ i = 1
    /\ diff_summaries_list = <<>>
    /\ ai_diff_summary = <<>>
    /\ ai_summary = None
    /\ html_filename_full_path = None
    /\ new_compressed_memory = None
    /\ public_article = None
    /\ article_full_path = None
    /\ attachment_to_send = None
    /\ pdf_full_path = None
    /\ email_success = FALSE
    /\ logAtStart = <<>>
    /\ memAtStart = None
    /\ calls = NoCalls
    /\ mapLog = <<>>
    /\ trail = <<>>
    \* hooks/manager.py:19-21
    /\ plugins = <<>>
    /\ hookCall = NoHookCall
    \* llm/provider_abc.py:11
    /\ PROVIDER_REGISTRY = EmptyRegistry
    /\ regCall = NoRegCall
    \* notifiers/factory.py:23
    /\ active_list = <<>>
    /\ notifyCall = NoNotifyCall
    /\ dataCall = NoDataCall

\* cli.py:254-276  a RunContext is assembled and handed to a fresh
\* orchestrator; the locals of run() start as the code initialises them
StartRun ==
    /\ pc = "idle"
    /\ runs < MaxRuns
    /\ runs' = runs + 1
    /\ \E c \in Contexts : ctx' = c /\ ctx0' = c
    /\ repoValid' \in BOOLEAN
    /\ pc' = "init_ai"
    /\ UNCHANGED <<persist, ai_service, locals, logAtStart, memAtStart,
                   calls, mapLog, trail>>
    /\ UNCHANGED ext

\* cli.py:276-277  run() is over and the process exits: the context and the
\* locals of the run are gone, the two files stay
Exit ==
    /\ pc \in {"done", "returned", "raised"}
    /\ pc' = "idle"
    /\ ctx' \in {c \in Contexts : c.llm_id = "deepseek" /\ c.style = "default"
                    /\ c.attach_format = "html" /\ c.no_ai /\ c.no_browser}
    /\ ctx0' = ctx'
    /\ repoValid' = TRUE
    /\ ai_service' = FALSE
    /\ project_readme' = None
    /\ previous_summary' = None
    /\ commits' = <<>>
    /\ stats' = [additions |-> 0, deletions |-> 0]
    /\ i' = 1
    /\ diff_summaries_list' = <<>>
    /\ ai_diff_summary' = <<>>
    /\ ai_summary' = None
    /\ html_filename_full_path' = None
    /\ new_compressed_memory' = None
    /\ public_article' = None
    /\ article_full_path' = None
    /\ attachment_to_send' = None
    /\ pdf_full_path' = None
    /\ email_success' = FALSE
    /\ logAtStart' = logFile
    /\ memAtStart' = memFile
    /\ calls' = NoCalls
    /\ mapLog' = <<>>
    /\ trail' = <<>>
    /\ UNCHANGED <<persist, runs>>
    /\ UNCHANGED ext

\* ---------------------------------------------------------------- helpers
Step(name) == trail' = Append(trail, name)

Did(name) == \E k \in DOMAIN trail : trail[k] = name

IsPrefix(s, t) == Len(s) <= Len(t) /\ SubSeq(t, 1, Len(s)) = s

Range(s) == {s[k] : k \in DOMAIN s}

\* llm/provider_abc.py:43-72  the four abstract methods of LLMProvider
AbstractMethods ==
    {"summarize_diff", "summarize_report", "distill_memory", "generate_article"}

\* the ABC methods each built-in provider class defines
\* (llm/gemini_provider.py:132-196 has no distill_memory;
\*  llm/deepseek_provider.py:141-208 has all four)
Implemented(cls) ==
    IF cls = "GeminiProvider"
    THEN {"summarize_diff", "summarize_report", "generate_article"}
    ELSE AbstractMethods

\* config.py:97-106
is_provider_configured(provider, keys) ==
    IF provider = "gemini" THEN keys.gemini
    ELSE IF provider = "deepseek" THEN keys.deepseek
    ELSE FALSE

\* GeminiProvider(config) / DeepSeekProvider(config): instantiating a class
\* that leaves an abstract method undefined raises TypeError before __init__
\* runs; __init__ raises ValueError for a missing key and wraps every client
\* failure into ValueError
ProviderNew(cls, keyPresent, clientOk) ==
    IF Implemented(cls) /= AbstractMethods THEN "TypeError"
    ELSE IF ~keyPresent THEN "ValueError"
    ELSE IF ~clientOk THEN "ValueError"
    ELSE "ok"

\* ai_summarizer.py:26-60  result "ok" or the name of the exception raised;
\* the two except clauses re-raise what they caught
get_llm_provider(provider_id, keys, clientOk) ==
    IF ~is_provider_configured(provider_id, keys) THEN "ValueError"
    ELSE IF provider_id = "gemini"
         THEN ProviderNew("GeminiProvider", keys.gemini, clientOk)
    ELSE IF provider_id = "deepseek"
         THEN ProviderNew("DeepSeekProvider", keys.deepseek, clientOk)
    ELSE "ValueError"

\* ai_summarizer.py:70-84
AIService(provider_id, keys, clientOk) ==
    get_llm_provider(provider_id, keys, clientOk)

\* orchestrator.py:53  except (ValueError, ImportError)
CaughtAtInit == {"ValueError", "ImportError"}

KeySets == [gemini : BOOLEAN, deepseek : BOOLEAN]

\* variant: the fallback also resets the style of the run
DegradeToNoAIResetsStyle(context) ==
    [context EXCEPT !.no_ai = TRUE, !.style = "default"]

\* orchestrator.py:57  self.context.no_ai = True
DegradeToNoAI(context) == [context EXCEPT !.no_ai = TRUE]

\* ------------------------------------------------------------ run(), 1-4
\* orchestrator.py:47-57
InitAI ==
    /\ pc = "init_ai"
    /\ Step("init_ai")
    /\ IF ctx.no_ai
       THEN /\ pc' = "read_readme"
            /\ UNCHANGED <<ctx, ai_service>>
       ELSE \E keys \in KeySets, clientOk \in BOOLEAN :
              LET r == AIService(ctx.llm_id, keys, clientOk) IN
              IF r = "ok"
              THEN /\ ai_service' = TRUE
                   /\ pc' = "read_readme"
                   /\ UNCHANGED ctx
              ELSE IF r \in CaughtAtInit
              THEN /\ ctx' = DegradeToNoAI(ctx)
                   /\ pc' = "read_readme"
                   /\ UNCHANGED ai_service
              ELSE /\ pc' = "raised"
                   /\ UNCHANGED <<ctx, ai_service>>
    /\ UNCHANGED <<persist, runs, ctx0, repoValid, locals, logAtStart,
                   memAtStart, calls, mapLog>>
    /\ UNCHANGED ext

\* orchestrator.py:59-70  README.md is found in a git work tree and missing
\* from a directory that is none
ReadReadme ==
    /\ pc = "read_readme"
    /\ Step("read_readme")
    /\ project_readme' = IF repoValid THEN "readme" ELSE None
    /\ pc' = "read_memory"
    /\ UNCHANGED <<persist, runs, ctx, ctx0, repoValid, ai_service,
                   previous_summary, commits, stats, i, diff_summaries_list,
                   ai_diff_summary, ai_summary, html_filename_full_path,
                   new_compressed_memory, public_article, article_full_path,
                   attachment_to_send, pdf_full_path, email_success, logAtStart, memAtStart,
                   calls, mapLog>>
    /\ UNCHANGED ext

\* orchestrator.py:72-87  a missing file and a failing read both leave None;
\* the read of a document with text in it can fail
ReadMemory ==
    /\ pc = "read_memory"
    /\ Step("read_memory")
    /\ IF ~ctx.no_ai
       THEN \E readOk \in (IF Truthy(memFile) THEN BOOLEAN ELSE {TRUE}) :
              previous_summary' = IF readOk THEN memFile ELSE None
       ELSE UNCHANGED previous_summary
    /\ pc' = "check_repo"
    /\ UNCHANGED <<persist, runs, ctx, ctx0, repoValid, ai_service,
                   project_readme, commits, stats, i, diff_summaries_list,
                   ai_diff_summary, ai_summary, html_filename_full_path,
                   new_compressed_memory, public_article, article_full_path,
                   attachment_to_send, pdf_full_path, email_success, logAtStart, memAtStart,
                   calls, mapLog>>
    /\ UNCHANGED ext

\* git_utils.py:62-78
is_git_repository(valid) == valid

\* orchestrator.py:89-93
CheckRepo ==
    /\ pc = "check_repo"
    /\ Step("check_repo")
    /\ pc' = IF is_git_repository(repoValid) THEN "get_log" ELSE "returned"
    /\ UNCHANGED <<persist, runs, ctx, ctx0, repoValid, ai_service, locals,
                   logAtStart, memAtStart, calls, mapLog>>
    /\ UNCHANGED ext

\* git_utils.py:114-131  the commits parsed from a log; a commit's hash is
\* modelled by its position
CommitLists ==
    UNION { { [k \in 1..n |-> [hash |-> k, merge |-> m[k]]] :
              m \in [1..n -> BOOLEAN] } : n \in 0..MaxCommits }

\* git_utils.py:134-193  totals of the numstat lines
StatsSamples == { [additions |-> 12, deletions |-> 3] }

\* orchestrator.py:95-110  get_git_log yields None/"" (no commits, or the git
\* command failed) or a log text that parses to a commit list
GetLog ==
    /\ pc = "get_log"
    /\ Step("get_log")
    /\ \E gotLog \in BOOLEAN :
         IF ~gotLog
         THEN /\ pc' = "returned"
              /\ UNCHANGED <<commits, stats>>
         ELSE /\ commits' \in CommitLists
              /\ stats' \in StatsSamples
              /\ pc' = "map"
    /\ UNCHANGED <<persist, runs, ctx, ctx0, repoValid, ai_service,
                   project_readme, previous_summary, i, diff_summaries_list,
                   ai_diff_summary, ai_summary, html_filename_full_path,
                   new_compressed_memory, public_article, article_full_path,
                   attachment_to_send, pdf_full_path, email_success, logAtStart, memAtStart,
                   calls, mapLog>>
    /\ UNCHANGED ext

\* ------------------------------------------------------- the AI service
\* what the environment decides for one _generate_content call: whether the
\* prompt template loads, whether it formats, and what the provider does
GenEnv(answers) ==
    { [templateOk |-> FALSE, formatOk |-> TRUE, answer |-> "raise"],
      [templateOk |-> TRUE, formatOk |-> FALSE, answer |-> "raise"] }
    \cup { [templateOk |-> TRUE, formatOk |-> TRUE, answer |-> a] :
           a \in answers \cup {"raise"} }

\* ai_summarizer.py:107-151  result and whether provider.generate_summary
\* was called
_generate_content(env) ==
    IF ~env.templateOk THEN [result |-> None, called |-> FALSE]
    ELSE IF ~env.formatOk THEN [result |-> None, called |-> FALSE]
    ELSE IF env.answer = "raise" THEN [result |-> None, called |-> TRUE]
    ELSE [result |-> env.answer, called |-> TRUE]

\* variant: the size guard is off by one (>= instead of >)
get_single_diff_summaryOffByOne(diffLen, env) ==
    IF diffLen >= DiffLimit
    THEN [result |-> Placeholder, requested |-> FALSE, called |-> FALSE]
    ELSE LET g == _generate_content(env) IN
         [result |-> IF Truthy(g.result) THEN Strip(g.result) ELSE None,
          requested |-> TRUE, called |-> g.called]

\* ai_summarizer.py:153-168
get_single_diff_summary(diffLen, env) ==
    IF diffLen > DiffLimit
    THEN [result |-> Placeholder, requested |-> FALSE, called |-> FALSE]
    ELSE LET g == _generate_content(env) IN
         [result |-> IF Truthy(g.result) THEN Strip(g.result) ELSE None,
          requested |-> TRUE, called |-> g.called]

\* ai_summarizer.py:170-207
get_ai_summary(env) == _generate_content(env)

\* the text a provider distils from a log: one digest per log length
MemoryOf(full_log) == "memory of " \o ToString(Len(full_log)) \o " entries"

\* variant: the log is read without its last entry
distill_project_memoryStale(full_log, readOk, env) ==
    LET stale == SubSeq(full_log, 1, Len(full_log) - 1) IN
    IF ~readOk THEN [result |-> None, called |-> FALSE]
    ELSE IF stale = <<>> THEN [result |-> None, called |-> FALSE]
    ELSE LET g == _generate_content(env) IN
         [result |-> IF Truthy(g.result) THEN MemoryOf(stale) ELSE g.result,
          called |-> g.called]

\* ai_summarizer.py:209-233  a log that cannot be read, is missing or is
\* empty gives None without a provider call; a provider that answers with a
\* text answers with the digest of the log it was given
distill_project_memory(full_log, readOk, env) ==
    IF ~readOk THEN [result |-> None, called |-> FALSE]
    ELSE IF full_log = <<>> THEN [result |-> None, called |-> FALSE]
    ELSE LET g == _generate_content(env) IN
         [result |-> IF Truthy(g.result) THEN MemoryOf(full_log) ELSE g.result,
          called |-> g.called]

\* ai_summarizer.py:235-266
generate_public_article(env) == _generate_content(env)

\* variant: the AI stages do not look at the no-AI flag
AIEnabledIgnoresFlag == TRUE

\* orchestrator.py:114, 139  not self.context.no_ai and ai_service
AIEnabled == ~ctx.no_ai /\ ai_service

\* --------------------------------------------------------- run(), 5: Map
\* orchestrator.py:114  the stage is skipped as a whole
MapSkip ==
    /\ pc = "map"
    /\ ~AIEnabled
    /\ Step("map_skipped")
    /\ pc' = "reduce"
    /\ UNCHANGED <<persist, runs, ctx, ctx0, repoValid, ai_service, locals,
                   logAtStart, memAtStart, calls, mapLog>>
    /\ UNCHANGED ext

\* orchestrator.py:127  f"* {commit.hash} ({commit.author}): {single_summary}"
SummaryLine(commit, single_summary) ==
    [hash |-> commit.hash, summary |-> single_summary]

\* variant: a commit without a summary empties the list collected so far
MapBodyDropsOnFailure(commit, diff_content, env) ==
    IF commit.merge
    THEN [list |-> diff_summaries_list, fetched |-> FALSE,
          requested |-> FALSE, called |-> FALSE, result |-> None]
    ELSE IF diff_content > 0
    THEN LET r == get_single_diff_summary(diff_content, env) IN
         [list |-> IF Truthy(r.result)
                   THEN Append(diff_summaries_list,
                               SummaryLine(commit, r.result))
                   ELSE <<>>,
          fetched |-> TRUE, requested |-> r.requested, called |-> r.called,
          result |-> r.result]
    ELSE [list |-> <<>>, fetched |-> TRUE,
          requested |-> FALSE, called |-> FALSE, result |-> None]

\* orchestrator.py:117-130  one iteration of the loop over commits
MapBody(commit, diff_content, env) ==
    IF commit.merge
    THEN [list |-> diff_summaries_list, fetched |-> FALSE,
          requested |-> FALSE, called |-> FALSE, result |-> None]
    ELSE IF diff_content > 0
    THEN LET r == get_single_diff_summary(diff_content, env) IN
         [list |-> IF Truthy(r.result)
                   THEN Append(diff_summaries_list,
                               SummaryLine(commit, r.result))
                   ELSE diff_summaries_list,
          fetched |-> TRUE, requested |-> r.requested, called |-> r.called,
          result |-> r.result]
    ELSE [list |-> diff_summaries_list, fetched |-> TRUE,
          requested |-> FALSE, called |-> FALSE, result |-> None]

MapCommit ==
    /\ pc = "map"
    /\ AIEnabled
    /\ i <= Len(commits)
    /\ \E diff_content \in DiffLens \cup {NoDiff}, env \in GenEnv(MapResponses) :
         LET b == MapBody(commits[i], diff_content, env) IN
         /\ diff_summaries_list' = b.list
         /\ calls' = IF b.called
                     THEN [calls EXCEPT !.map = Append(@, commits[i].hash)]
                     ELSE calls
         /\ mapLog' = Append(mapLog,
                [hash |-> commits[i].hash, merge |-> commits[i].merge,
                 fetched |-> b.fetched,
                 diff |-> IF b.fetched /\ diff_content > 0
                          THEN diff_content ELSE NoDiff,
                 requested |-> b.requested, called |-> b.called,
                 summary |-> IF Truthy(b.result) THEN b.result ELSE None])
    /\ i' = i + 1
    /\ Step("map_commit")
    /\ pc' = "map"
    /\ UNCHANGED <<persist, runs, ctx, ctx0, repoValid, ai_service,
                   project_readme, previous_summary, commits, stats,
                   ai_diff_summary, ai_summary, html_filename_full_path,
                   new_compressed_memory, public_article, article_full_path,
                   attachment_to_send, pdf_full_path, email_success, logAtStart, memAtStart>>
    /\ UNCHANGED ext

\* orchestrator.py:131-135  "\n".join(diff_summaries_list); the joined text
\* is modelled by the list of its lines, None by the empty list
MapEnd ==
    /\ pc = "map"
    /\ AIEnabled
    /\ i > Len(commits)
    /\ ai_diff_summary' = diff_summaries_list
    /\ Step("map_end")
    /\ pc' = "reduce"
    /\ UNCHANGED <<persist, runs, ctx, ctx0, repoValid, ai_service,
                   project_readme, previous_summary, commits, stats, i,
                   diff_summaries_list, ai_summary, html_filename_full_path,
                   new_compressed_memory, public_article, article_full_path,
                   attachment_to_send, pdf_full_path, email_success, logAtStart, memAtStart,
                   calls, mapLog>>
    /\ UNCHANGED ext

\* ------------------------------------------------------ run(), 6: Reduce
\* orchestrator.py:137-142
Reduce ==
    /\ pc = "reduce"
    /\ IF AIEnabled
       THEN \E env \in GenEnv(Responses) :
              LET g == get_ai_summary(env) IN
              /\ ai_summary' = g.result
              /\ calls' = IF g.called
                          THEN [calls EXCEPT !.reduce = @ + 1] ELSE calls
              /\ Step("reduce")
       ELSE /\ UNCHANGED <<ai_summary, calls>>
            /\ Step("reduce_skipped")
    /\ pc' = "save_html"
    /\ UNCHANGED <<persist, runs, ctx, ctx0, repoValid, ai_service,
                   project_readme, previous_summary, commits, stats, i,
                   diff_summaries_list, ai_diff_summary,
                   html_filename_full_path, new_compressed_memory,
                   public_article, article_full_path, attachment_to_send, pdf_full_path,
                   email_success, logAtStart, memAtStart, mapLog>>
    /\ UNCHANGED ext

\* ------------------------------------------------- run(), 7: HTML report
\* report_builder.py:357-367  the path written, or None when the write fails
save_html_report(writeOk) == IF writeOk THEN "GitReport.html" ELSE None

\* orchestrator.py:144-151
SaveHtml ==
    /\ pc = "save_html"
    /\ \E writeOk \in BOOLEAN :
         html_filename_full_path' = save_html_report(writeOk)
    /\ Step("save_html")
    /\ pc' = "update_memory"
    /\ UNCHANGED <<persist, runs, ctx, ctx0, repoValid, ai_service,
                   project_readme, previous_summary, commits, stats, i,
                   diff_summaries_list, ai_diff_summary, ai_summary,
                   new_compressed_memory, public_article, article_full_path,
                   attachment_to_send, pdf_full_path, email_success, logAtStart, memAtStart,
                   calls, mapLog>>
    /\ UNCHANGED ext

\* --------------------------------------------- run(), 8: memory system
\* orchestrator.py:160-165  datetime.now() is modelled by the run number
LogEntry ==
    [date |-> runs, additions |-> stats.additions,
     deletions |-> stats.deletions, summary |-> ai_summary]

\* variant: the log is opened with "w"
AppendToLogRewrites(log, entry) == <<entry>>

\* orchestrator.py:166-167  open(log_file_path, "a") and one write
AppendToLog(log, entry) == Append(log, entry)

\* variant: the guard of step 8 forgets the summary
MemoryUpdateDueAnySummary == ai_service

\* orchestrator.py:154  if ai_summary and ai_service
MemoryUpdateDue == Truthy(ai_summary) /\ ai_service

\* variant: the try block of step 8 has no handler
AfterMemoryFailureUncaught == "raised"

\* orchestrator.py:180-181  except Exception: the error is logged and run()
\* goes on with the statement after the try block
AfterMemoryFailure == "check_html"

\* orchestrator.py:153-168  the guard and the first statements of the try
\* block; a failing open or write raises into the except of line 180
UpdateMemory ==
    /\ pc = "update_memory"
    /\ IF MemoryUpdateDue
       THEN \E appendOk \in BOOLEAN :
              IF appendOk
              THEN /\ logFile' = AppendToLog(logFile, LogEntry)
                   /\ Step("append_log")
                   /\ pc' = "distill"
              ELSE /\ UNCHANGED logFile
                   /\ Step("append_log_raised")
                   /\ pc' = AfterMemoryFailure
       ELSE /\ UNCHANGED logFile
            /\ Step("update_memory_skipped")
            /\ pc' = "check_html"
    /\ UNCHANGED <<memFile, runs, ctx, ctx0, repoValid, ai_service, locals,
                   logAtStart, memAtStart, calls, mapLog>>
    /\ UNCHANGED ext

\* orchestrator.py:170-172
Distill ==
    /\ pc = "distill"
    /\ \E readOk \in BOOLEAN, env \in GenEnv(Responses) :
         LET d == distill_project_memory(logFile, readOk, env) IN
         /\ new_compressed_memory' = d.result
         /\ calls' = IF d.called
                     THEN [calls EXCEPT !.distill = @ + 1] ELSE calls
         /\ pc' = IF Truthy(d.result) THEN "write_memory" ELSE "check_html"
    /\ Step("distill")
    /\ UNCHANGED <<persist, runs, ctx, ctx0, repoValid, ai_service,
                   project_readme, previous_summary, commits, stats, i,
                   diff_summaries_list, ai_diff_summary, ai_summary,
                   html_filename_full_path, public_article,
                   article_full_path, attachment_to_send, pdf_full_path,
                   email_success,
                   logAtStart, memAtStart, mapLog>>
    /\ UNCHANGED ext

\* variant: the memory document is opened with "a"
WriteMemoryFileAppends(old, text, outcome) ==
    IF outcome = "ok" THEN (IF old = None THEN "" ELSE old) \o text
    ELSE old

\* orchestrator.py:177-178  open(memory_write_path, "w") and one write:
\* "ok" replaces the text, "open_raised" leaves the file alone, and
\* "write_raised" leaves the file as open(.., "w") truncated it
WriteMemoryFile(old, text, outcome) ==
    IF outcome = "ok" THEN text
    ELSE IF outcome = "open_raised" THEN old
    ELSE ""

\* orchestrator.py:173-181
WriteMemory ==
    /\ pc = "write_memory"
    /\ \E outcome \in {"ok", "open_raised", "write_raised"} :
         /\ memFile' = WriteMemoryFile(memFile, new_compressed_memory, outcome)
         /\ Step(IF outcome = "ok" THEN "write_memory"
                 ELSE "write_memory_raised")
         /\ pc' = IF outcome = "ok" THEN "check_html" ELSE AfterMemoryFailure
    /\ UNCHANGED <<logFile, runs, ctx, ctx0, repoValid, ai_service, locals,
                   logAtStart, memAtStart, calls, mapLog>>
    /\ UNCHANGED ext

\* variant: the saved report is not asked for
ReportSavedUnchecked == TRUE

\* orchestrator.py:183  if not html_filename_full_path
ReportSaved == html_filename_full_path /= None

\* orchestrator.py:183-185
CheckHtml ==
    /\ pc = "check_html"
    /\ Step("check_html")
    /\ pc' = IF ~ReportSaved THEN "returned" ELSE "style"
    /\ UNCHANGED <<persist, runs, ctx, ctx0, repoValid, ai_service, locals,
                   logAtStart, memAtStart, calls, mapLog>>
    /\ UNCHANGED ext

\* ------------------------------------------- run(), 9: style transform
\* orchestrator.py:191
needs_article == ctx.email_list /= <<>> /\ ctx.attach_format = "pdf"

\* orchestrator.py:193-195
StyleRequested ==
    needs_article \/ (ctx.email_list = <<>> /\ ctx.style /= "default")

\* variant: the summary of this run is not asked for
HasSummaryUnchecked == TRUE

\* orchestrator.py:197  ai_summary
HasSummary == Truthy(ai_summary)

\* variant: the memory loaded in step 3 is not asked for
HasMemoryUnchecked == TRUE

\* orchestrator.py:198  and previous_summary
HasMemory == Truthy(previous_summary)

\* orchestrator.py:196-201
StylePossible ==
    /\ HasSummary
    /\ HasMemory
    /\ ~ctx.no_ai
    /\ ai_service

\* orchestrator.py:187-232
Style ==
    /\ pc = "style"
    /\ IF StyleRequested /\ StylePossible
       THEN \E env \in GenEnv(Responses), saveOk \in BOOLEAN :
              LET g == generate_public_article(env) IN
              /\ public_article' = g.result
              \* orchestrator.py:203-208  the arguments of the call
              /\ calls' = [calls EXCEPT
                             !.style = IF g.called THEN @ + 1 ELSE @,
                             !.style_memory = previous_summary]
              /\ article_full_path' =
                   IF Truthy(g.result) /\ saveOk
                   THEN "PublicArticle.md" ELSE None
              /\ Step("style")
       ELSE /\ UNCHANGED <<public_article, article_full_path, calls>>
            /\ Step("style_skipped")
    /\ pc' = "console"
    /\ UNCHANGED <<persist, runs, ctx, ctx0, repoValid, ai_service,
                   project_readme, previous_summary, commits, stats, i,
                   diff_summaries_list, ai_diff_summary, ai_summary,
                   html_filename_full_path, new_compressed_memory,
                   attachment_to_send, pdf_full_path, email_success, logAtStart, memAtStart,
                   mapLog>>
    /\ UNCHANGED ext

\* orchestrator.py:234-253  summary and statistics go to the console when no
\* recipient is configured
Console ==
    /\ pc = "console"
    /\ Step(IF ctx.email_list = <<>> THEN "console" ELSE "console_skipped")
    /\ pc' = "browser"
    /\ UNCHANGED <<persist, runs, ctx, ctx0, repoValid, ai_service, locals,
                   logAtStart, memAtStart, calls, mapLog>>
    /\ UNCHANGED ext

\* orchestrator.py:255-257
Browser ==
    /\ pc = "browser"
    /\ Step(IF ~ctx.no_browser THEN "browser" ELSE "browser_skipped")
    /\ pc' = "email"
    /\ UNCHANGED <<persist, runs, ctx, ctx0, repoValid, ai_service, locals,
                   logAtStart, memAtStart, calls, mapLog>>
    /\ UNCHANGED ext

\* orchestrator.py:266-299  pdf is the result of convert_md_to_pdf: a path,
\* None, or "raise"
Converted(pdf) == pdf /= None /\ pdf /= "raise"

\* variant: a failed conversion leaves the mail without attachment
ChooseAttachmentNoFallback(pdf) ==
    IF ctx.attach_format = "pdf"
    THEN IF article_full_path /= None /\ Converted(pdf) THEN pdf ELSE None
    ELSE html_filename_full_path

ChooseAttachment(pdf) ==
    IF ctx.attach_format = "pdf"
    THEN IF article_full_path /= None
         THEN IF Converted(pdf) THEN pdf
              ELSE html_filename_full_path
         ELSE html_filename_full_path
    ELSE html_filename_full_path

\* orchestrator.py:259-318
Email ==
    /\ pc = "email"
    /\ IF ctx.email_list /= <<>>
       THEN \E pdf \in {"PublicArticle.pdf", None, "raise"},
               sent \in BOOLEAN :
              LET a == ChooseAttachment(pdf) IN
              /\ attachment_to_send' = a
              \* orchestrator.py:277-279  the conversion runs only for pdf
              \* with a saved article
              /\ pdf_full_path' =
                   IF ctx.attach_format = "pdf" /\ article_full_path /= None
                      /\ Converted(pdf)
                   THEN pdf ELSE None
              /\ IF a = None
                 THEN /\ email_success' = FALSE
                      /\ UNCHANGED calls
                 ELSE /\ email_success' = sent
                      /\ calls' = [calls EXCEPT !.email = @ + 1]
              /\ Step("email")
       ELSE /\ UNCHANGED <<attachment_to_send, pdf_full_path, email_success,
                         calls>>
            /\ Step("email_skipped")
    /\ pc' = "done"
    /\ UNCHANGED <<persist, runs, ctx, ctx0, repoValid, ai_service,
                   project_readme, previous_summary, commits, stats, i,
                   diff_summaries_list, ai_diff_summary, ai_summary,
                   html_filename_full_path, new_compressed_memory,
                   public_article, article_full_path, logAtStart, memAtStart,
                   mapLog>>
    /\ UNCHANGED ext

Next ==
    \/ StartRun
    \/ Exit
    \/ InitAI
    \/ ReadReadme
    \/ ReadMemory
    \/ CheckRepo
    \/ GetLog
    \/ MapSkip
    \/ MapCommit
    \/ MapEnd
    \/ Reduce
    \/ SaveHtml
    \/ UpdateMemory
    \/ Distill
    \/ WriteMemory
    \/ CheckHtml
    \/ Style
    \/ Console
    \/ Browser
    \/ Email

Spec == Init /\ [][Next]_vars

\* ======================================================================
\* Properties of ReportOrchestrator.run
\* ======================================================================
RunOver == pc \in {"done", "returned", "raised"}

\* C1: the project log differs from its content at the start of the run only
\* when the Reduce stage was called in this run and returned a non-empty AI
\* summary; with AI disabled, or with an absent or empty summary, the log is
\* exactly what it was when the run started.
C1_LogOnlyAfterSummary ==
    logFile /= logAtStart =>
        /\ Truthy(ai_summary)
        /\ ~ctx.no_ai
        /\ calls.reduce = 1
        /\ Did("reduce")

C1_Witness ==
    /\ pc = "done"
    /\ logFile /= logAtStart
    /\ ai_summary = "txt"

\* C2: when save_html_report returned no path, the run returns without
\* raising, sends nothing, and leaves the project log and the memory document
\* as they were at the start of the run.
C2_HtmlFailureLeavesMemoryAlone ==
    (RunOver /\ Did("save_html") /\ html_filename_full_path = None) =>
        /\ pc = "returned"
        /\ calls.email = 0
        /\ logFile = logAtStart
        /\ memFile = memAtStart

\* C3: whenever AI was requested and the AI service could not be built, the
\* run has not raised and the context's no_ai flag is set.
C3_ConstructionFailureDegrades ==
    (Did("init_ai") /\ ~ctx0.no_ai /\ ~ai_service) =>
        /\ pc /= "raised"
        /\ ctx.no_ai

\* C4: a run against a target that is not a git work tree ends by returning
\* (it does not raise), without fetching the git log, without any provider
\* call, without a saved report, with log and memory untouched and nothing
\* sent.
C4_InvalidRepoReturnsCleanly ==
    (RunOver /\ ~repoValid) =>
        /\ pc = "returned"
        /\ ~Did("get_log")
        /\ calls = NoCalls
        /\ html_filename_full_path = None
        /\ logFile = logAtStart
        /\ memFile = memAtStart

\* C5: at every moment the log as it was when the current run started is a
\* prefix of the log, and the run has added at most one entry to it.
C5_LogAppendOnly ==
    /\ IsPrefix(logAtStart, logFile)
    /\ Len(logFile) <= Len(logAtStart) + 1

C5_Witness ==
    /\ Len(logAtStart) >= 1
    /\ Len(logFile) = Len(logAtStart) + 1

\* C6: the memory document differs from its content at the start of the run
\* only after distill_project_memory was called in this run and returned a
\* non-empty text; and once the write of step 8 has completed, the document
\* is exactly that text.
C6_MemoryOnlyAfterDistill ==
    /\ memFile /= memAtStart =>
         (Truthy(new_compressed_memory) /\ calls.distill = 1)
    /\ Did("write_memory") => memFile = new_compressed_memory

C6_Witness ==
    /\ pc = "done"
    /\ Did("write_memory")
    /\ Truthy(memAtStart)
    /\ memFile /= memAtStart

\* C7: a run in which appending the log entry or writing the memory document
\* raised never ends by raising; it goes on to the check of the saved report
\* and, the report being saved, carries out style transform, console output
\* and dispatch (one mail handed to SMTP when recipients are configured).
C7_MemoryFailureNonFatal ==
    (Did("append_log_raised") \/ Did("write_memory_raised")) =>
        /\ pc /= "raised"
        /\ Did("check_html") \/ pc = "check_html"
        /\ (RunOver /\ html_filename_full_path /= None) =>
             /\ pc = "done"
             /\ Did("style") \/ Did("style_skipped")
             /\ Did("console") \/ Did("console_skipped")
             /\ ctx.email_list /= <<>> => (Did("email") /\ calls.email = 1)
             /\ ctx.email_list = <<>> => Did("console")

C7_Witness ==
    /\ pc = "done"
    /\ Did("append_log_raised") \/ Did("write_memory_raised")
    /\ ctx.email_list /= <<>>
    /\ calls.email = 1

\* C8: while the context's no_ai flag is set, no Map, Reduce, Distill or
\* Style provider call has been made in the run.
C8_NoAiNoProviderCalls ==
    ctx.no_ai =>
        /\ calls.map = <<>>
        /\ calls.reduce = 0
        /\ calls.distill = 0
        /\ calls.style = 0

C8_Witness ==
    /\ pc = "done"
    /\ ctx.no_ai
    /\ ~ctx0.no_ai
    /\ \E k \in DOMAIN commits : ~commits[k].merge
    /\ ctx.style /= "default"
    /\ ctx.attach_format = "pdf"

\* C9: for every commit the Map stage fetched a diff for: a diff longer than
\* DiffLimit was not passed to the provider, its summary is the placeholder
\* and the placeholder line of that commit is in the Map output; a non-empty
\* diff of at most DiffLimit characters was handed to the diff_map request.
C9_OversizeDiffPlaceholder ==
    \A k \in DOMAIN mapLog :
        LET m == mapLog[k] IN
        /\ (m.fetched /\ m.diff > DiffLimit) =>
             /\ ~m.requested
             /\ ~m.called
             /\ m.hash \notin Range(calls.map)
             /\ m.summary = Placeholder
             /\ SummaryLine(commits[k], Placeholder) \in Range(diff_summaries_list)
             /\ Did("map_end") =>
                  SummaryLine(commits[k], Placeholder) \in Range(ai_diff_summary)
        /\ (m.fetched /\ m.diff > 0 /\ m.diff <= DiffLimit) =>
             /\ m.requested
             /\ m.summary /= Placeholder
             /\ m.called <=> m.hash \in Range(calls.map)

C9_Witness ==
    /\ Did("map_end")
    /\ \E k \in DOMAIN mapLog : mapLog[k].fetched /\ mapLog[k].diff = DiffLimit + 1
    /\ \E k \in DOMAIN mapLog :
         mapLog[k].fetched /\ mapLog[k].diff = DiffLimit /\ mapLog[k].called

\* the lines the Map stage owes: one per processed commit that is no merge
\* and got a non-empty summary, in commit order
RECURSIVE OwedLines(_)
OwedLines(ml) ==
    IF ml = <<>> THEN <<>>
    ELSE LET m == ml[Len(ml)]
             rest == OwedLines(SubSeq(ml, 1, Len(ml) - 1)) IN
         IF ~m.merge /\ m.summary /= None
         THEN Append(rest, [hash |-> m.hash, summary |-> m.summary])
         ELSE rest

MaxPlugins == 2
MaxFiles == 2

\* A text handed through a filter chain is the sequence of the markers that
\* were appended to it; <<>> is the empty string.
Texts == {<<>>, <<"v">>}

\* hooks/base.py:16-45  the notification hook and the filter hook the model
\* follows (a subclass overrides them, or sets one to None)
TriggerEvents == {"on_start"}
FilterEvents == {"on_ai_summary_generated"}

\* what a plugin's method does when called.  "missing": the attribute is None,
\* "ok"/"none": returns None, "empty": returns "", "append": returns the value
\* it received followed by the plugin's marker, "raise": raises RuntimeError
TriggerBehaviours == {"ok", "raise", "missing"}
FilterBehaviours == {"append", "none", "empty", "raise", "missing"}

\* hooks/base.py:7-14  plugin instances, told apart by name; a plugin of the
\* pool has one temper, shown by both of its hooks
PluginPool ==
    { [name |-> n, on_start |-> t[1], on_ai_summary_generated |-> t[2]] :
        n \in {"A", "B"},
        t \in {<<"ok", "append">>, <<"ok", "none">>, <<"ok", "empty">>,
               <<"raise", "raise">>, <<"missing", "missing">>} }

\* the classes `except Exception` catches
ExceptionClasses == {"RuntimeError", "SyntaxError", "ImportError", "TypeError"}

\* manager.py:83, 99  getattr(plugin, event_name, None)
getattr(plugin, event_name) == plugin[event_name]

\* the call method(self.context, value): what comes back, or what is raised
CallMethod(plugin, event_name, value) ==
    LET does == getattr(plugin, event_name) IN
    IF does = "raise" THEN [kind |-> "raise", exc |-> "RuntimeError", val |-> <<>>]
    ELSE IF does = "append"
    THEN [kind |-> "value", exc |-> "", val |-> Append(value, plugin.name)]
    ELSE IF does = "empty" THEN [kind |-> "value", exc |-> "", val |-> <<>>]
    ELSE [kind |-> "none", exc |-> "", val |-> <<>>]

\* variant: the handler of a plugin failure catches nothing
PluginFailureEscapes(exc) == FALSE

\* manager.py:87, 106  except Exception as e: logger.error(...)
PluginFailureCaught(exc) == exc \in ExceptionClasses

\* manager.py:74-76
register(ps, plugin) == Append(ps, plugin)

\* manager.py:82-90  the loop of trigger over the plugins still to visit
RECURSIVE trigger_loop(_, _, _)
trigger_loop(ps, event_name, log) ==
    IF ps = <<>> THEN [log |-> log, outcome |-> "returned"]
    ELSE LET plugin == Head(ps)
             r == CallMethod(plugin, event_name, <<>>)
             entry == [plugin |-> plugin.name, got |-> <<>>, out |-> r.kind,
                       ret |-> r.val]
         IN IF getattr(plugin, event_name) = "missing"
            THEN trigger_loop(Tail(ps), event_name, log)
            ELSE IF r.kind = "raise" /\ ~PluginFailureCaught(r.exc)
            THEN [log |-> Append(log, entry), outcome |-> "raised"]
            ELSE trigger_loop(Tail(ps), event_name, Append(log, entry))

\* manager.py:78-90
trigger(ps, event_name) == trigger_loop(ps, event_name, <<>>)

\* variant: the returned value is tested for truth
ReplacesIfTruthy(r) == r.kind = "value" /\ r.val /= <<>>

\* manager.py:104  if new_value is not None
Replaces(r) == r.kind /= "none"

\* manager.py:98-109  the loop of filter over the plugins still to visit
RECURSIVE filter_loop(_, _, _, _)
filter_loop(ps, event_name, value, log) ==
    IF ps = <<>> THEN [value |-> value, log |-> log, outcome |-> "returned"]
    ELSE LET plugin == Head(ps)
             r == CallMethod(plugin, event_name, value)
             entry == [plugin |-> plugin.name, got |-> value, out |-> r.kind,
                       ret |-> r.val]
         IN IF getattr(plugin, event_name) = "missing"
            THEN filter_loop(Tail(ps), event_name, value, log)
            ELSE IF r.kind = "raise"
            THEN IF PluginFailureCaught(r.exc)
                 THEN filter_loop(Tail(ps), event_name, value, Append(log, entry))
                 ELSE [value |-> value, log |-> Append(log, entry),
                       outcome |-> "raised"]
            ELSE filter_loop(Tail(ps), event_name,
                             IF Replaces(r) THEN r.val ELSE value,
                             Append(log, entry))

\* variant: every plugin is handed the initial value
RECURSIVE filter_unthreaded_loop(_, _, _, _, _)
filter_unthreaded_loop(ps, event_name, initial_value, value, log) ==
    IF ps = <<>> THEN [value |-> value, log |-> log, outcome |-> "returned"]
    ELSE LET plugin == Head(ps)
             r == CallMethod(plugin, event_name, initial_value)
             entry == [plugin |-> plugin.name, got |-> initial_value, out |-> r.kind,
                       ret |-> r.val]
         IN IF getattr(plugin, event_name) = "missing"
            THEN filter_unthreaded_loop(Tail(ps), event_name, initial_value, value, log)
            ELSE filter_unthreaded_loop(Tail(ps), event_name, initial_value,
                     IF r.kind = "value" THEN r.val ELSE value, Append(log, entry))

filterUnthreaded(ps, event_name, initial_value) ==
    filter_unthreaded_loop(ps, event_name, initial_value, initial_value, <<>>)

\* manager.py:92-110
filter(ps, event_name, initial_value) ==
    filter_loop(ps, event_name, initial_value, <<>>)

\* ---- discovery: load_plugins
\* the plugin a well-formed file defines
GoodPlugin ==
    [name |-> "G", on_start |-> "ok", on_ai_summary_generated |-> "append"]

\* files a plugins/ directory can hold.  py: the name ends with ".py";
\* dunder: the name starts with "__"; exec: what exec_module does ("ok" or
\* the exception it raises); classes: the BasePlugin subclasses the module
\* defines, each with what its constructor does
PluginFiles ==
    { [filename |-> "good.py", py |-> TRUE, dunder |-> FALSE, exec |-> "ok",
       classes |-> << [plugin |-> GoodPlugin, init |-> "ok"] >>],
      [filename |-> "broken.py", py |-> TRUE, dunder |-> FALSE,
       exec |-> "SyntaxError", classes |-> <<>>],
      [filename |-> "helpers.py", py |-> TRUE, dunder |-> FALSE, exec |-> "ok",
       classes |-> <<>>],
      [filename |-> "bad_ctor.py", py |-> TRUE, dunder |-> FALSE, exec |-> "ok",
       classes |-> << [plugin |-> GoodPlugin, init |-> "TypeError"] >>],
      [filename |-> "__init__.py", py |-> TRUE, dunder |-> TRUE,
       exec |-> "SyntaxError", classes |-> <<>>] }

\* os.listdir: the files of the directory in any order
RECURSIVE Listings(_)
Listings(n) ==
    IF n = 0 THEN {<<>>}
    ELSE Listings(n - 1) \cup
         {Append(l, f) : l \in {m \in Listings(n - 1) : Len(m) = n - 1},
                         f \in PluginFiles}

Injective(l) == \A a, b \in DOMAIN l : l[a] = l[b] => a = b

DirListings == {l \in Listings(MaxFiles) : Injective(l)}

\* manager.py:54-64  every BasePlugin subclass of the module is instantiated
\* and registered; a constructor that raises ends the loop
RECURSIVE register_classes(_, _)
register_classes(ps, classes) ==
    IF classes = <<>> THEN [plugins |-> ps, exc |-> ""]
    ELSE IF Head(classes).init /= "ok"
    THEN [plugins |-> ps, exc |-> Head(classes).init]
    ELSE register_classes(register(ps, Head(classes).plugin), Tail(classes))

\* variant: a failing file is not caught
LoadFailureEscapes(exc) == FALSE

\* manager.py:71-72  except Exception as e: logger.error(...)
LoadFailureCaught(exc) == exc \in ExceptionClasses

\* manager.py:43-72
_load_plugin_from_file(ps, file) ==
    LET r == IF file.exec /= "ok" THEN [plugins |-> ps, exc |-> file.exec]
             ELSE register_classes(ps, file.classes)
    IN IF r.exc = "" THEN [plugins |-> r.plugins, outcome |-> "returned"]
       ELSE IF LoadFailureCaught(r.exc)
       THEN [plugins |-> r.plugins, outcome |-> "returned"]
       ELSE [plugins |-> r.plugins, outcome |-> "raised"]

\* manager.py:38-41  the scan of the directory listing
RECURSIVE load_plugins_loop(_, _)
load_plugins_loop(ps, listing) ==
    IF listing = <<>> THEN [plugins |-> ps, outcome |-> "returned"]
    ELSE LET file == Head(listing) IN
         IF file.py /\ ~file.dunder
         THEN LET r == _load_plugin_from_file(ps, file) IN
              IF r.outcome = "raised" THEN r
              ELSE load_plugins_loop(r.plugins, Tail(listing))
         ELSE load_plugins_loop(ps, Tail(listing))

\* manager.py:23-41  dirExists: os.path.exists(plugins_dir)
load_plugins(ps, dirExists, listing) ==
    IF ~dirExists THEN [plugins |-> ps, outcome |-> "returned"]
    ELSE load_plugins_loop(ps, listing)

\* ---- the operations of a PluginManager
\* manager.py:19-21
NewManager ==
    /\ plugins /= <<>>
    /\ plugins' = <<>>
    /\ hookCall' = NoHookCall
    /\ UNCHANGED offHook

\* manager.py:74-76
Register ==
    /\ Len(plugins) < MaxPlugins
    /\ \E plugin \in PluginPool :
         /\ plugins' = register(plugins, plugin)
         /\ hookCall' = [NoHookCall EXCEPT !.op = "register", !.before = plugins]
    /\ UNCHANGED offHook

\* manager.py:23-41
LoadPlugins ==
    /\ \E dirExists \in BOOLEAN, listing \in DirListings :
         LET r == load_plugins(plugins, dirExists, listing) IN
         /\ dirExists \/ listing = <<>>
         /\ Len(r.plugins) <= MaxPlugins
         /\ plugins' = r.plugins
         /\ hookCall' = [NoHookCall EXCEPT !.op = "load", !.before = plugins,
                            !.listing = IF dirExists THEN listing ELSE <<>>,
                            !.outcome = r.outcome]
    /\ UNCHANGED offHook

\* manager.py:78-90
Trigger ==
    /\ \E event_name \in TriggerEvents :
         LET r == trigger(plugins, event_name) IN
         hookCall' = [NoHookCall EXCEPT !.op = "trigger", !.event = event_name,
                         !.before = plugins, !.log = r.log,
                         !.outcome = r.outcome]
    /\ UNCHANGED <<plugins, offHook>>

\* manager.py:92-110
Filter ==
    /\ \E event_name \in FilterEvents, initial_value \in Texts :
         LET r == filter(plugins, event_name, initial_value) IN
         hookCall' = [NoHookCall EXCEPT !.op = "filter", !.event = event_name,
                         !.before = plugins, !.initial = initial_value,
                         !.value = r.value, !.log = r.log,
                         !.outcome = r.outcome]
    /\ UNCHANGED <<plugins, offHook>>

HookNext ==
    \/ NewManager
    \/ Register
    \/ LoadPlugins
    \/ Trigger
    \/ Filter

HookSpec == Init /\ [][HookNext]_vars

\* ======================================================================
\* Properties of the plugin manager
\* ======================================================================
\* the plugins of the last call that have a method for its event
HasMethod(plugin) == getattr(plugin, hookCall.event) /= "missing"

Hooked == SelectSeq(hookCall.before, HasMethod)

\* the threaded value right after the k-th invoked plugin of a filter call
After(k) ==
    IF k < Len(hookCall.log) THEN hookCall.log[k + 1].got ELSE hookCall.value

\* the markers of the plugins of a sequence, in order
RECURSIVE Markers(_)
Markers(ps) == IF ps = <<>> THEN <<>> ELSE <<Head(ps).name>> \o Markers(Tail(ps))

Appends(plugin) == plugin.on_ai_summary_generated = "append"

\* C11: filter composes left to right.  The plugins that have the method are
\* invoked in registration order, the first one receives the initial value,
\* a plugin that follows an appending plugin receives what that plugin
\* returned, and when every registered plugin appends its marker the result
\* is the initial value followed by the markers in registration order.
C11_FilterComposes ==
    hookCall.op = "filter" =>
        /\ Len(hookCall.log) = Len(Hooked)
        /\ \A k \in DOMAIN hookCall.log :
             /\ hookCall.log[k].plugin = Hooked[k].name
             /\ k = 1 => hookCall.log[k].got = hookCall.initial
             /\ Appends(Hooked[k]) =>
                  After(k) = Append(hookCall.log[k].got, Hooked[k].name)
        /\ (\A k \in DOMAIN hookCall.before : Appends(hookCall.before[k])) =>
             hookCall.value = hookCall.initial \o Markers(hookCall.before)

\* plugins A then B, both appending: the value ends with A's then B's marker
C11_Witness ==
    /\ hookCall.op = "filter"
    /\ Len(hookCall.before) = 2
    /\ hookCall.before[1].name = "A" /\ Appends(hookCall.before[1])
    /\ hookCall.before[2].name = "B" /\ Appends(hookCall.before[2])
    /\ hookCall.initial = <<"v">>
    /\ hookCall.value = <<"v", "A", "B">>

\* C12: a plugin that throws inside trigger or filter does not block the
\* plugins after it.  The call returns normally, every plugin that has the
\* method is invoked, and in filter the value right after a throwing plugin
\* is the value that plugin received.
C12_ThrowingPluginDoesNotBlock ==
    hookCall.op \in {"trigger", "filter"} =>
        /\ hookCall.outcome = "returned"
        /\ Len(hookCall.log) = Len(Hooked)
        /\ \A k \in DOMAIN hookCall.log :
             hookCall.log[k].plugin = Hooked[k].name
        /\ hookCall.op = "filter" =>
             \A k \in DOMAIN hookCall.log :
                hookCall.log[k].out = "raise" => After(k) = hookCall.log[k].got

\* a filter call whose first plugin throws and whose second plugin appends
C12_Witness ==
    /\ hookCall.op = "filter"
    /\ Len(hookCall.log) = 2
    /\ hookCall.log[1].out = "raise"
    /\ hookCall.log[2].out = "value"
    /\ hookCall.log[2].got = <<"v">>
    /\ hookCall.value = <<"v", hookCall.log[2].plugin>>

\* C13 as stated: in filter a plugin that returns nothing or an empty value
\* leaves the threaded value unchanged; only a non-empty return replaces it.
C13_EmptyReturnKeepsValue ==
    hookCall.op = "filter" =>
        \A k \in DOMAIN hookCall.log :
            /\ hookCall.log[k].out = "none" => After(k) = hookCall.log[k].got
            /\ (hookCall.log[k].out = "value" /\ hookCall.log[k].ret = <<>>) =>
                  After(k) = hookCall.log[k].got
            /\ (hookCall.log[k].out = "value" /\ hookCall.log[k].ret /= <<>>) =>
                  After(k) = hookCall.log[k].ret

\* C13 amended: a plugin that returns None leaves the threaded value
\* unchanged; every other return, the empty string included, replaces it.
C13_NoneReturnKeepsValue ==
    hookCall.op = "filter" =>
        \A k \in DOMAIN hookCall.log :
            /\ hookCall.log[k].out = "none" => After(k) = hookCall.log[k].got
            /\ hookCall.log[k].out = "value" => After(k) = hookCall.log[k].ret

\* a non-empty value went through a plugin returning None and then through a
\* plugin returning the empty string
C13_Witness ==
    /\ hookCall.op = "filter"
    /\ Len(hookCall.log) = 2
    /\ hookCall.log[1].out = "none" /\ hookCall.log[1].got = <<"v">>
    /\ hookCall.log[2].out = "value" /\ hookCall.log[2].ret = <<>>
    /\ hookCall.log[2].got = <<"v">>
    /\ hookCall.value = <<>>

\* a file the scan loads and that loads: a plugin module whose code runs and
\* whose plugin classes can all be constructed
Scanned(file) == file.py /\ ~file.dunder

WellFormed(file) ==
    /\ file.exec = "ok"
    /\ \A k \in DOMAIN file.classes : file.classes[k].init = "ok"

\* the plugins the well-formed files of a listing define, in listing order
RECURSIVE PluginsOf(_)
PluginsOf(listing) ==
    IF listing = <<>> THEN <<>>
    ELSE LET file == Head(listing) IN
         (IF Scanned(file) /\ WellFormed(file)
          THEN [k \in DOMAIN file.classes |-> file.classes[k].plugin]
          ELSE <<>>) \o PluginsOf(Tail(listing))

ProviderIds == {"gemini", "deepseek", "mock", "ollama"}

\* the class each provider module defines under its id
\* (llm/mock_provider.py:15-16, llm/ollama_provider.py:17-18, and the classes
\*  of llm/gemini_provider.py:24 and llm/deepseek_provider.py:26)
OwnClass(provider_id) ==
    CASE provider_id = "gemini" -> "GeminiProvider"
      [] provider_id = "deepseek" -> "DeepSeekProvider"
      [] provider_id = "mock" -> "MockProvider"
      [] provider_id = "ollama" -> "OllamaProvider"

\* the decorations the model applies: each id with its own class, and with
\* the class of a second module that claims the same id
Decorations ==
    {<<id, OwnClass(id)>> : id \in ProviderIds}
        \cup {<<id, "ExtraProvider">> : id \in ProviderIds}

\* variant: the decorator overwrites an existing entry
register_providerOverwrites(registry, provider_id, cls) ==
    [registry |-> [id \in DOMAIN registry \cup {provider_id} |->
                      IF id = provider_id THEN cls ELSE registry[id]],
     outcome |-> "returned"]

\* llm/provider_abc.py:14-32  the decorator applied to cls
register_provider(registry, provider_id, cls) ==
    IF provider_id \in DOMAIN registry
    THEN [registry |-> registry, outcome |-> "ValueError"]
    ELSE [registry |-> [id \in DOMAIN registry \cup {provider_id} |->
                           IF id = provider_id THEN cls ELSE registry[id]],
          outcome |-> "returned"]

\* ai_summarizer.py:46-49  the class the factory instantiates for an id
FactoryClass(provider_id) ==
    IF provider_id = "gemini" THEN "GeminiProvider"
    ELSE IF provider_id = "deepseek" THEN "DeepSeekProvider"
    ELSE None

\* a module that defines a provider class is imported
RegisterProvider ==
    /\ \E d \in Decorations :
         LET r == register_provider(PROVIDER_REGISTRY, d[1], d[2]) IN
         /\ PROVIDER_REGISTRY' = r.registry
         /\ regCall' = [NoRegCall EXCEPT !.op = "register", !.provider_id = d[1],
                           !.cls = d[2], !.before = PROVIDER_REGISTRY,
                           !.outcome = r.outcome]
    /\ UNCHANGED offRegistry

\* ai_summarizer.py:26-60  the factory is asked for the provider of an id;
\* configured: the API key of the id is set where the id has one, and the
\* client library accepts it
ResolveProvider ==
    /\ \E provider_id \in ProviderIds, keys \in KeySets, clientOk \in BOOLEAN :
         LET r == get_llm_provider(provider_id, keys, clientOk) IN
         regCall' = [NoRegCall EXCEPT !.op = "resolve",
                        !.provider_id = provider_id,
                        !.cls = IF r = "ok" THEN FactoryClass(provider_id) ELSE None,
                        !.before = PROVIDER_REGISTRY,
                        !.configured =
                            /\ clientOk
                            /\ provider_id = "gemini" => keys.gemini
                            /\ provider_id = "deepseek" => keys.deepseek,
                        !.outcome = r]
    /\ UNCHANGED <<PROVIDER_REGISTRY, offRegistry>>

\* a fresh interpreter: the registry is empty again
NewProcess ==
    /\ PROVIDER_REGISTRY /= EmptyRegistry
    /\ PROVIDER_REGISTRY' = EmptyRegistry
    /\ regCall' = NoRegCall
    /\ UNCHANGED offRegistry

RegistryNext ==
    \/ RegisterProvider
    \/ ResolveProvider
    \/ NewProcess

RegistrySpec == Init /\ [][RegistryNext]_vars

\* ======================================================================
\* Properties of the provider registry and factory
\* ======================================================================
\* C14: register_provider is duplicate-checked.  Registering an id that is
\* already in PROVIDER_REGISTRY raises ValueError and leaves the registry as
\* it was, the first registration still mapped to its class.
C14_DuplicateRegistrationRejected ==
    (regCall.op = "register" /\ regCall.provider_id \in DOMAIN regCall.before) =>
        /\ regCall.outcome = "ValueError"
        /\ PROVIDER_REGISTRY = regCall.before
        /\ PROVIDER_REGISTRY[regCall.provider_id] = regCall.before[regCall.provider_id]

\* "mock" is registered as MockProvider and a second module claims "mock"
C14_Witness ==
    /\ regCall.op = "register"
    /\ regCall.provider_id = "mock"
    /\ regCall.cls = "ExtraProvider"
    /\ "mock" \in DOMAIN regCall.before
    /\ regCall.outcome = "ValueError"
    /\ PROVIDER_REGISTRY["mock"] = "MockProvider"

\* C16 as stated: every provider id present in the registry, selected with
\* --llm in an environment configured for it, is resolved by the factory to
\* an instance of the class registered under that id.
C16_RegisteredIdsResolve ==
    (/\ regCall.op = "resolve"
     /\ regCall.provider_id \in DOMAIN regCall.before
     /\ regCall.configured) =>
        /\ regCall.outcome = "ok"
        /\ regCall.cls = regCall.before[regCall.provider_id]

\* ======================================================================
\* Properties of ReportOrchestrator.run: style transform and dispatch
\* ======================================================================
\* step 9 of run() is behind the run
StyleStepOver == Did("style") \/ Did("style_skipped")

\* C17 as stated: the Style Transform stage is requested whenever a
\* non-default style is selected, or a PDF attachment needs the styled
\* article, whether or not a recipient list is configured (the summary and
\* the memory the stage works on being there).
C17_StyleIndependentOfRecipients ==
    (/\ StyleStepOver
     /\ StylePossible
     /\ \/ ctx.style /= "default"
        \/ (ctx.attach_format = "pdf" /\ ctx.email_list /= <<>>)) =>
        Did("style")

\* C18: with attachment format pdf, when no PDF is produced (the conversion
\* returns nothing or raises, or no styled article was saved) the saved HTML
\* report is the attachment and the mail is still handed to the sender.
C18_PdfFallsBackToHtml ==
    (/\ Did("email")
     /\ ctx.attach_format = "pdf"
     /\ pdf_full_path = None) =>
        /\ html_filename_full_path /= None
        /\ attachment_to_send = html_filename_full_path
        /\ calls.email = 1

\* a styled article was saved, its conversion failed, the HTML report went out
C18_Witness ==
    /\ Did("email")
    /\ ctx.attach_format = "pdf"
    /\ article_full_path /= None
    /\ pdf_full_path = None
    /\ attachment_to_send = html_filename_full_path
    /\ calls.email = 1

\* ======================================================================
\* Notification: the notifier factory (notifiers/factory.py) and the
\* dispatch step of run() (orchestrator.py, step 13)
\* ======================================================================
\* notifiers/factory.py:10-14
AVAILABLE_NOTIFIERS_CLASSES == <<"EmailNotifier", "FeishuNotifier">>

\* config.py:121-126  which of the Feishu settings are non-empty
FeishuConfigs ==
    [FEISHU_APP_ID : BOOLEAN, FEISHU_APP_SECRET : BOOLEAN,
     FEISHU_WEBHOOK : BOOLEAN]

\* notifiers/email_notifier.py:24-26, notifiers/feishu_notifier.py:23-29
is_enabled(notifier_cls, email_list, feishu) ==
    IF notifier_cls = "EmailNotifier" THEN email_list /= <<>>
    ELSE (feishu.FEISHU_APP_ID /\ feishu.FEISHU_APP_SECRET)
             \/ feishu.FEISHU_WEBHOOK

\* variant: a failing notifier class is not caught
NotifierFailureEscapes(exc) == FALSE

\* notifiers/factory.py:30-31  except Exception as e: logger.error(...)
NotifierFailureCaught(exc) == exc \in ExceptionClasses

\* notifiers/factory.py:24-31  the loop over the classes still to visit;
\* init_raises, is_enabled_raises: the classes whose construction, whose
\* is_enabled() raises
RECURSIVE notifiers_loop(_, _, _, _, _, _)
notifiers_loop(classes, active, email_list, feishu, init_raises, is_enabled_raises) ==
    IF classes = <<>> THEN [active_list |-> active, outcome |-> "returned"]
    ELSE LET notifier_cls == Head(classes)
             raised == notifier_cls \in init_raises \cup is_enabled_raises
         IN IF raised /\ ~NotifierFailureCaught("RuntimeError")
            THEN [active_list |-> active, outcome |-> "raised"]
            ELSE notifiers_loop(Tail(classes),
                     IF ~raised /\ is_enabled(notifier_cls, email_list, feishu)
                     THEN Append(active, notifier_cls) ELSE active,
                     email_list, feishu, init_raises, is_enabled_raises)

\* notifiers/factory.py:19-33
get_active_notifiers(email_list, feishu, init_raises, is_enabled_raises) ==
    notifiers_loop(AVAILABLE_NOTIFIERS_CLASSES, <<>>, email_list, feishu,
                   init_raises, is_enabled_raises)

\* notifiers/factory.py:19-33
GetActiveNotifiers ==
    /\ \E email_list \in EmailLists, feishu \in FeishuConfigs,
          init_raises \in SUBSET Range(AVAILABLE_NOTIFIERS_CLASSES),
          is_enabled_raises \in SUBSET Range(AVAILABLE_NOTIFIERS_CLASSES) :
         LET r == get_active_notifiers(email_list, feishu, init_raises,
                                       is_enabled_raises) IN
         /\ active_list' = IF r.outcome = "returned" THEN r.active_list
                           ELSE active_list
         /\ notifyCall' = [NoNotifyCall EXCEPT !.op = "factory",
                              !.email_list = email_list, !.feishu = feishu,
                              !.init_raises = init_raises,
                              !.is_enabled_raises = is_enabled_raises,
                              !.outcome = r.outcome]
    /\ UNCHANGED offNotify

\* orchestrator.py:259-318  step 13 of run() with a saved HTML report: the
\* mail is handed to email_sender.send_email_report when a recipient list is
\* configured, and nothing else is sent
Dispatch ==
    /\ \E email_list \in EmailLists, feishu \in FeishuConfigs,
          sent \in BOOLEAN :
         notifyCall' = [NoNotifyCall EXCEPT !.op = "dispatch",
                           !.email_list = email_list, !.feishu = feishu,
                           !.attempted = IF email_list /= <<>>
                                         THEN <<"EmailNotifier">> ELSE <<>>,
                           !.results = IF email_list /= <<>>
                                       THEN <<sent>> ELSE <<>>]
    /\ UNCHANGED <<active_list, offNotify>>

\* ---- FeishuNotifier.send
\* what the Feishu endpoints answer during one send: whether a tenant token
\* is issued, whether the text message to a recipient is accepted, whether
\* the webhook accepts the post, whether app mode raises on the way
FeishuEnvs ==
    [token : BOOLEAN, msg_sent : BOOLEAN, hook_ok : BOOLEAN, raises : BOOLEAN]

\* notifiers/feishu_notifier.py:48-101  the result of app mode
_send_via_app(email_list, env) ==
    IF env.raises THEN FALSE
    ELSE IF ~env.token THEN FALSE
    ELSE IF email_list = <<>> THEN FALSE
    ELSE env.msg_sent

\* notifiers/feishu_notifier.py:195-221  the result of webhook mode
_send_via_webhook(feishu, env) ==
    IF ~feishu.FEISHU_WEBHOOK THEN FALSE ELSE env.hook_ok

\* notifiers/feishu_notifier.py:37-39
use_app_mode(feishu) == feishu.FEISHU_APP_ID /\ feishu.FEISHU_APP_SECRET

\* notifiers/feishu_notifier.py:31-44  the modes entered, in order, and the
\* value send returns
send(feishu, email_list, env) ==
    IF use_app_mode(feishu)
    THEN [attempted |-> <<"app">>,
          results |-> <<_send_via_app(email_list, env)>>]
    ELSE [attempted |-> <<"webhook">>,
          results |-> <<_send_via_webhook(feishu, env)>>]

\* notifiers/feishu_notifier.py:31-44  send on an enabled FeishuNotifier
FeishuSend ==
    /\ \E email_list \in EmailLists, feishu \in FeishuConfigs,
          env \in FeishuEnvs :
         /\ is_enabled("FeishuNotifier", email_list, feishu)
         /\ LET r == send(feishu, email_list, env) IN
            notifyCall' = [NoNotifyCall EXCEPT !.op = "feishu_send",
                              !.email_list = email_list, !.feishu = feishu,
                              !.attempted = r.attempted,
                              !.results = r.results]
    /\ UNCHANGED <<active_list, offNotify>>

NotifyNext ==
    \/ GetActiveNotifiers
    \/ Dispatch
    \/ FeishuSend

NotifySpec == Init /\ [][NotifyNext]_vars

\* ======================================================================
\* Properties of notification
\* ======================================================================
\* the classes of the last call that construct and report enabled
Usable(notifier_cls) ==
    /\ notifier_cls \notin notifyCall.init_raises
    /\ notifier_cls \notin notifyCall.is_enabled_raises
    /\ is_enabled(notifier_cls, notifyCall.email_list, notifyCall.feishu)

\* C19 as stated: with both notifiers enabled, send is called on both, the
\* failure of one never skipping the other, and there is one result per
\* channel.
C19_BothNotifiersAttempted ==
    (/\ notifyCall.op = "dispatch"
     /\ \A k \in DOMAIN AVAILABLE_NOTIFIERS_CLASSES :
           Usable(AVAILABLE_NOTIFIERS_CLASSES[k])) =>
        /\ notifyCall.attempted = AVAILABLE_NOTIFIERS_CLASSES
        /\ Len(notifyCall.results) = 2

\* C20: get_active_notifiers returns normally with exactly the classes of
\* AVAILABLE_NOTIFIERS_CLASSES that can be constructed and whose is_enabled()
\* is true, in declaration order; a class that raises is left out and the
\* classes after it are still considered.
C20_ActiveNotifiers ==
    notifyCall.op = "factory" =>
        /\ notifyCall.outcome = "returned"
        /\ active_list = SelectSeq(AVAILABLE_NOTIFIERS_CLASSES, Usable)

\* the construction of EmailNotifier raises and FeishuNotifier is returned
C20_Witness ==
    /\ notifyCall.op = "factory"
    /\ notifyCall.email_list /= <<>>
    /\ notifyCall.init_raises = {"EmailNotifier"}
    /\ notifyCall.is_enabled_raises = {}
    /\ notifyCall.feishu.FEISHU_WEBHOOK
    /\ active_list = <<"FeishuNotifier">>

\* C21 as stated: FeishuNotifier.send tries app mode first when it is
\* configured, and goes on to webhook mode when app mode is not configured
\* or has failed (a webhook being configured).
C21_FeishuFallsBackToWebhook ==
    notifyCall.op = "feishu_send" =>
        /\ use_app_mode(notifyCall.feishu) => notifyCall.attempted[1] = "app"
        /\ (/\ notifyCall.feishu.FEISHU_WEBHOOK
            /\ \/ ~use_app_mode(notifyCall.feishu)
               \/ notifyCall.results[1] = FALSE) =>
             "webhook" \in Range(notifyCall.attempted)

\* ======================================================================
\* The data layer: repository locators (cli.py, data_sources/factory.py),
\* the remote range parser (data_sources/github_api.py) and the statistics
\* of git_utils.py
\* ======================================================================
\* A locator is the sequence of its characters.
\* str.lower() on one character
LowerChar(c) ==
    CASE c = "H" -> "h" [] c = "T" -> "t" [] c = "P" -> "p" [] c = "S" -> "s"
      [] c = "G" -> "g" [] c = "I" -> "i" [] c = "X" -> "x"
      [] OTHER -> c

\* str.lower()
lower(str) == [k \in DOMAIN str |-> LowerChar(str[k])]

\* str.startswith(prefix)
startswith(str, prefix) == IsPrefix(prefix, str)

\* the three scheme prefixes of factory.py:20-22 and cli.py:177
RemotePrefixes ==
    { <<"h", "t", "t", "p", ":", "/", "/">>,
      <<"h", "t", "t", "p", "s", ":", "/", "/">>,
      <<"g", "i", "t", "@">> }

\* the beginnings of the locators the model passes to -r
LocatorHeads ==
    RemotePrefixes \cup
    { <<"H", "T", "T", "P", ":", "/", "/">>,
      <<"H", "t", "t", "p", "s", ":", "/", "/">>,
      <<"G", "I", "T", "@">>,
      <<"h", "t", "t", "p", ":", "/">>,
      <<"f", "t", "p", ":", "/", "/">>,
      <<"g", "i", "t">>,
      <<"/">>,
      <<>> }

LocatorTails == { <<>>, <<"x">>, <<"X", "/", "x">> }

Locators == {head \o tail : head \in LocatorHeads, tail \in LocatorTails}

\* variant: the locator is compared as typed
get_data_sourceCaseSensitive(repo_path) ==
    IF \E prefix \in RemotePrefixes : startswith(repo_path, prefix)
    THEN "GitHubAPIDataSource" ELSE "LocalGitDataSource"

\* data_sources/factory.py:11-28  the class of the data source returned
get_data_source(repo_path) ==
    LET path == lower(repo_path) IN
    IF \E prefix \in RemotePrefixes : startswith(path, prefix)
    THEN "GitHubAPIDataSource" ELSE "LocalGitDataSource"

\* os.path.normpath on a path without "." and ".." components: runs of
\* slashes collapse and a trailing slash goes
RECURSIVE collapse(_)
collapse(str) ==
    IF Len(str) < 2 THEN str
    ELSE IF str[1] = "/" /\ str[2] = "/" THEN collapse(Tail(str))
    ELSE <<str[1]>> \o collapse(Tail(str))

normpath(str) ==
    LET c == collapse(str) IN
    IF Len(c) > 1 /\ c[Len(c)] = "/" THEN SubSeq(c, 1, Len(c) - 1) ELSE c

\* os.path.abspath with the working directory /w
abspath(str) ==
    IF startswith(str, <<"/">>) THEN normpath(str)
    ELSE normpath(<<"/", "w", "/">> \o str)

\* cli.py:174-182  the -r branch: kept tells whether the argument was kept
\* as a remote URL
run_cli(arg) ==
    IF \E prefix \in RemotePrefixes : startswith(arg, prefix)
    THEN [kept |-> TRUE, repo_path |-> arg]
    ELSE [kept |-> FALSE, repo_path |-> abspath(arg)]

\* data_sources/factory.py:11-28
GetDataSource ==
    /\ dataCall.op = "none"
    /\ \E locator \in Locators :
         dataCall' = [NoDataCall EXCEPT !.op = "get_data_source",
                         !.locator = locator, !.repo_path = locator,
                         !.source = get_data_source(locator)]
    /\ UNCHANGED offData

\* cli.py:174-187 then data_sources/factory.py:11-28 on the resulting context
RunCli ==
    /\ dataCall.op = "none"
    /\ \E locator \in Locators \ {<<>>} :
         LET r == run_cli(locator) IN
         dataCall' = [NoDataCall EXCEPT !.op = "run_cli",
                         !.locator = locator, !.kept = r.kept,
                         !.repo_path = r.repo_path,
                         !.source = get_data_source(r.repo_path)]
    /\ UNCHANGED offData

\* ---- _parse_since_arg
MaxWords == 3

\* Time is counted in hours.  datetime.now() in the model, and the range of
\* datetime (datetime.min is hour 0)
Now == 17748000
MinTime == 0

\* timedelta of one unit, in hours (github_api.py:87-97: a month is 30 days,
\* a year 365 days)
UnitHours(unit) ==
    CASE unit = "hour" -> 1
      [] unit = "day" -> 24
      [] unit = "week" -> 168
      [] unit = "month" -> 720
      [] unit = "year" -> 8760

Units == {"hour", "day", "week", "month", "year"}

\* A phrase is the sequence of its whitespace-separated words.  Of a word the
\* pattern of github_api.py:80-82 sees: the number its trailing digits spell
\* (tail, -1 when it does not end with a digit), the unit it spells with an
\* optional s ("" when none), and whether it begins with "ago".
NumberWords == {[tail |-> n, unit |-> "", ago |-> FALSE] : n \in {0, 1, 3, 3000}}
UnitWords == {[tail |-> 0 - 1, unit |-> u, ago |-> FALSE] : u \in Units}
AgoWord == [tail |-> 0 - 1, unit |-> "", ago |-> TRUE]
OtherWord == [tail |-> 0 - 1, unit |-> "", ago |-> FALSE]

Words == NumberWords \cup UnitWords \cup {AgoWord, OtherWord}

RECURSIVE PhrasesUpTo(_)
PhrasesUpTo(n) ==
    IF n = 0 THEN {<<>>}
    ELSE PhrasesUpTo(n - 1) \cup
         {Append(p, w) : p \in {q \in PhrasesUpTo(n - 1) : Len(q) = n - 1},
                         w \in Words}

Phrases == PhrasesUpTo(MaxWords)

\* github_api.py:80-82  re.search: the positions where the pattern matches
Matches(arg) ==
    {k \in 1..(Len(arg) - 2) :
        arg[k].tail >= 0 /\ arg[k + 1].unit /= "" /\ arg[k + 2].ago}

\* datetime.now() - delta: OverflowError outside the range of datetime
Minus(delta) ==
    IF Now - delta < MinTime
    THEN [since |-> 0, outcome |-> "OverflowError"]
    ELSE [since |-> Now - delta, outcome |-> "returned"]

\* github_api.py:67-101
_parse_since_arg(arg) ==
    IF arg = <<>> THEN Minus(24)
    ELSE IF Matches(arg) /= {}
    THEN LET k == CHOOSE m \in Matches(arg) : \A o \in Matches(arg) : m <= o
             num == arg[k].tail
             unit == arg[k + 1].unit
         IN Minus(num * UnitHours(unit))
    ELSE Minus(24)

\* github_api.py:131  get_commits parses the range of the context
ParseSince ==
    /\ dataCall.op = "none"
    /\ \E arg \in Phrases :
         LET r == _parse_since_arg(arg) IN
         dataCall' = [NoDataCall EXCEPT !.op = "parse_since", !.phrase = arg,
                         !.since = r.since, !.outcome = r.outcome]
    /\ UNCHANGED offData

\* ---- get_git_stats
MaxLines == 3

\* config.py:42-54  FILTER_FILE_PATTERNS, by the paths of the model it matches
FILTER_FILE_PATTERNS == {"poetry.lock"}

\* Lines of `git log --numstat` output, already split at the tabs: parts is
\* the number of fields; add and del are the numbers the first two fields
\* spell, -1 for a field that is not all digits ("-" of a binary file) and -2
\* for a field of digits int() rejects.
NumstatLines ==
    {[parts |-> 3, add |-> a, del |-> d, filename |-> f] :
        a \in {1, 2}, d \in {0, 1}, f \in {"a.py", "b.py"}}
      \cup {[parts |-> 3, add |-> 0 - 1, del |-> 0 - 1, filename |-> "a.py"],
            [parts |-> 3, add |-> 1, del |-> 1, filename |-> "poetry.lock"]}

OtherLines ==
    {[parts |-> 1, add |-> 0 - 1, del |-> 0 - 1, filename |-> ""],
     [parts |-> 3, add |-> 0 - 2, del |-> 0, filename |-> "b.py"]}

RECURSIVE OutputsUpTo(_)
OutputsUpTo(n) ==
    IF n = 0 THEN {<<>>}
    ELSE OutputsUpTo(n - 1) \cup
         {Append(o, l) : o \in {q \in OutputsUpTo(n - 1) : Len(q) = n - 1},
                         l \in NumstatLines \cup OtherLines}

Outputs == OutputsUpTo(MaxLines)

\* git_utils.py:167-168  int(field) if field.isdigit() else 0
FieldValue(field) == IF field >= 0 THEN field ELSE 0

\* the entry of filename in file_changes, 0 when there is none
IndexOf(file_changes, filename) ==
    IF \E k \in 1..Len(file_changes) : file_changes[k].filename = filename
    THEN CHOOSE k \in 1..Len(file_changes) :
             file_changes[k].filename = filename
    ELSE 0

\* variant: a later line of a file replaces the counts of the earlier ones
RecordFileLatest(file_changes, filename, add, delete) ==
    LET k == IndexOf(file_changes, filename) IN
    IF k = 0
    THEN Append(file_changes,
                [additions |-> add, deletions |-> delete,
                 filename |-> filename])
    ELSE [file_changes EXCEPT ![k].additions = add,
                              ![k].deletions = delete]

\* git_utils.py:183-189
RecordFile(file_changes, filename, add, delete) ==
    LET k == IndexOf(file_changes, filename) IN
    IF k = 0
    THEN Append(file_changes,
                [additions |-> add, deletions |-> delete,
                 filename |-> filename])
    ELSE [file_changes EXCEPT ![k].additions = @ + add,
                              ![k].deletions = @ + delete]

\* git_utils.py:163-189  one pass of the loop; raised records the ValueError
\* that ends the loop
StatsLine(acc, line) ==
    IF acc.raised \/ line.parts /= 3 THEN acc
    ELSE IF line.add = 0 - 2 \/ line.del = 0 - 2
    THEN [acc EXCEPT !.raised = TRUE]
    ELSE IF line.filename \in FILTER_FILE_PATTERNS THEN acc
    ELSE [additions |-> acc.additions + FieldValue(line.add),
          deletions |-> acc.deletions + FieldValue(line.del),
          file_changes |-> RecordFile(acc.file_changes, line.filename,
                                      FieldValue(line.add),
                                      FieldValue(line.del)),
          raised |-> FALSE]

RECURSIVE stats_loop(_, _)
stats_loop(acc, output) ==
    IF output = <<>> THEN acc
    ELSE stats_loop(StatsLine(acc, Head(output)), Tail(output))

\* git_utils.py:134-193
get_git_stats(output) ==
    IF output = <<>>
    THEN [additions |-> 0, deletions |-> 0, files_changed |-> 0,
          file_stats |-> <<>>]
    ELSE LET acc == stats_loop([additions |-> 0, deletions |-> 0,
                                file_changes |-> <<>>, raised |-> FALSE],
                               output)
         IN [additions |-> acc.additions,
             deletions |-> acc.deletions,
             files_changed |-> IF acc.raised THEN 0
                               ELSE Len(acc.file_changes),
             file_stats |-> IF acc.raised THEN <<>> ELSE acc.file_changes]

GetGitStats ==
    /\ dataCall.op = "none"
    /\ \E output \in Outputs :
         dataCall' = [NoDataCall EXCEPT !.op = "get_git_stats",
                         !.lines = output, !.stats = get_git_stats(output)]
    /\ UNCHANGED offData

DataNext ==
    \/ GetDataSource
    \/ RunCli
    \/ ParseSince
    \/ GetGitStats

DataSpec == Init /\ [][DataNext]_vars

\* ---- properties of the data layer (checked under DataSpec)

Remote == "GitHubAPIDataSource"
Local == "LocalGitDataSource"

\* C22 as stated: get_data_source selects the remote variant exactly when the
\* locator, as given, starts with http://, https:// or git@, and the local
\* variant for every other locator.
C22_RemoteIffSchemePrefix ==
    dataCall.op = "get_data_source" =>
        /\ dataCall.source \in {Remote, Local}
        /\ dataCall.source = Remote <=>
             \E prefix \in RemotePrefixes :
                 /\ Len(dataCall.locator) >= Len(prefix)
                 /\ \A k \in 1..Len(prefix) : dataCall.locator[k] = prefix[k]

\* C22 amended: get_data_source selects the remote variant exactly when the
\* locator starts with http://, https:// or git@ in any mix of upper and
\* lower case, and the local variant for every other locator.
C22_RemoteIffSchemePrefixAnyCase ==
    dataCall.op = "get_data_source" =>
        /\ dataCall.source \in {Remote, Local}
        /\ dataCall.source = Remote <=>
             \E prefix \in RemotePrefixes :
                 /\ Len(dataCall.locator) >= Len(prefix)
                 /\ \A k \in 1..Len(prefix) :
                        LowerChar(dataCall.locator[k]) = prefix[k]

\* a locator whose scheme is typed in upper case was given to the factory,
\* which selected the remote variant
C22_Witness ==
    /\ dataCall.op = "get_data_source"
    /\ Len(dataCall.locator) > 7
    /\ SubSeq(dataCall.locator, 1, 4) = <<"H", "T", "T", "P">>
    /\ dataCall.source = Remote

\* the phrase is exactly "N unit(s) ago"
IsSincePhrase(phrase) ==
    /\ Len(phrase) = 3
    /\ phrase[1].tail >= 0
    /\ phrase[2].unit \in Units
    /\ phrase[3].ago

\* C23 as stated: _parse_since_arg yields now minus N units for a phrase
\* "N unit(s) ago" (72 hours for "3 days ago"), and now minus 24 hours for
\* every phrase in which the pattern is not found, the empty one included.
C23_SincePhraseYieldsLowerBound ==
    dataCall.op = "parse_since" =>
        /\ IsSincePhrase(dataCall.phrase) =>
             /\ dataCall.outcome = "returned"
             /\ dataCall.since =
                  Now - dataCall.phrase[1].tail
                          * UnitHours(dataCall.phrase[2].unit)
        /\ Matches(dataCall.phrase) = {} =>
             /\ dataCall.outcome = "returned"
             /\ dataCall.since = Now - 24

Permuted(output, p) == [k \in 1..Len(output) |-> output[p[k]]]

\* C24: for every permutation of the same numstat lines get_git_stats
\* returns the same total additions, total deletions and files_changed, and
\* the same sums per path in file_stats.
C24_StatsOrderIndependent ==
    (/\ dataCall.op = "get_git_stats"
     /\ Range(dataCall.lines) \subseteq NumstatLines) =>
        \A p \in Permutations(1..Len(dataCall.lines)) :
            LET other == get_git_stats(Permuted(dataCall.lines, p)) IN
            /\ other.additions = dataCall.stats.additions
            /\ other.deletions = dataCall.stats.deletions
            /\ other.files_changed = dataCall.stats.files_changed
            /\ Range(other.file_stats) = Range(dataCall.stats.file_stats)

\* three numstat lines, two of them of one file with different counts, were
\* aggregated into the stats of two files
C24_Witness ==
    /\ dataCall.op = "get_git_stats"
    /\ Range(dataCall.lines) \subseteq NumstatLines
    /\ Len(dataCall.lines) = 3
    /\ dataCall.lines[1].filename = dataCall.lines[3].filename
    /\ dataCall.lines[1].add /= dataCall.lines[3].add
    /\ dataCall.stats.files_changed = 2
    /\ \E k \in 1..2 : dataCall.stats.file_stats[k].additions = 3

\* C30 as stated: run_cli keeps the locator unmodified, as a remote URL,
\* exactly when get_data_source selects the remote variant for that locator.
C30_CliAndFactoryAgree ==
    dataCall.op = "run_cli" =>
        (dataCall.kept <=> get_data_source(dataCall.locator) = Remote)

\* ======================================================================
\* Further properties of ReportOrchestrator.run (checked under Spec)
\* ======================================================================

\* the AI stages of run(), as steps of the trail
IsStage(step) == step \in {"map_commit", "reduce", "distill", "style"}

IsLaterStage(step) == step \in {"reduce", "distill", "style"}

\* C25: at every moment of a run the context equals the context handed to
\* the orchestrator in every field but no_ai; no_ai is never reset from true
\* to false, and it differs from its initial value only after the
\* construction of the AI service failed in step 1.
C25_ContextReadOnly ==
    /\ [ctx EXCEPT !.no_ai = ctx0.no_ai] = ctx0
    /\ ctx0.no_ai => ctx.no_ai
    /\ ctx.no_ai /= ctx0.no_ai => (Did("init_ai") /\ ~ai_service)

\* a run with a style, the pdf format and recipients was degraded to no-AI
\* and went to its end
C25_Witness ==
    /\ pc = "done"
    /\ ~ctx0.no_ai
    /\ ctx.no_ai
    /\ ctx.style = "novel"
    /\ ctx.attach_format = "pdf"
    /\ ctx.email_list /= <<>>

\* C26: the AI stages of a run are carried out in the order Map iterations,
\* Reduce, Distill, Style: no Map iteration comes after the Reduce step;
\* Distill is reached only after a Reduce call that returned a non-empty
\* summary; Style is reached only after the Reduce call; and Reduce, Distill
\* and Style are each carried out, and their provider called, at most once.
C26_StagesSequential ==
    LET stages == SelectSeq(trail, IsStage)
        later == SelectSeq(stages, IsLaterStage)
    IN
    /\ later \in {<<>>, <<"reduce">>, <<"reduce", "distill">>,
                  <<"reduce", "style">>, <<"reduce", "distill", "style">>}
    /\ stages = SubSeq(stages, 1, Len(stages) - Len(later)) \o later
    /\ calls.map /= <<>> => stages /= later
    /\ calls.reduce \in {0, 1} /\ (calls.reduce = 1 => later /= <<>>)
    /\ calls.distill \in {0, 1}
    /\ calls.distill = 1 => (Len(later) >= 2 /\ later[2] = "distill")
    /\ calls.style \in {0, 1}
    /\ calls.style = 1 => (Len(later) >= 2 /\ later[Len(later)] = "style")
    /\ Len(later) >= 2 => calls.reduce = 1
    /\ (Len(later) >= 2 /\ later[2] = "distill") => Truthy(ai_summary)

\* a run called the provider in all four stages
C26_Witness ==
    /\ pc = "done"
    /\ Len(calls.map) = 2
    /\ calls.reduce = 1
    /\ calls.distill = 1
    /\ calls.style = 1

\* the steps of the trail that append to the log or distil it
IsMemoryStep(step) == step \in {"append_log", "append_log_raised", "distill"}

\* C27: Distill is reached only after the entry of this run was appended to
\* the log, the log then being the log at the start of the run followed by
\* that entry, and the memory it produces is distilled from that log; in a
\* run whose append raised, Distill is not reached, the provider is not
\* called for it, and log and memory document are as at the start.
C27_DistillAfterAppend ==
    LET steps == SelectSeq(trail, IsMemoryStep) IN
    /\ steps \in {<<>>, <<"append_log">>, <<"append_log_raised">>,
                  <<"append_log", "distill">>}
    /\ calls.distill > 0 => steps = <<"append_log", "distill">>
    /\ steps = <<"append_log", "distill">> =>
         /\ logFile = Append(logAtStart, LogEntry)
         /\ Truthy(new_compressed_memory) =>
              new_compressed_memory = MemoryOf(Append(logAtStart, LogEntry))
    /\ steps = <<"append_log_raised">> =>
         /\ calls.distill = 0
         /\ logFile = logAtStart
         /\ memFile = memAtStart

\* in a run that found a log of earlier runs, the memory was distilled from
\* the log with the new entry
C27_Witness ==
    /\ Did("distill")
    /\ calls.distill = 1
    /\ Len(logAtStart) >= 1
    /\ new_compressed_memory = MemoryOf(logFile)

\* C28: the Style stage is entered only when the memory document was not
\* empty at the start of the run, and it is handed that text, whatever the
\* run distilled; a run that started without memory has no article, and when
\* it mails with the pdf format the attachment is the HTML report.
C28_StyleNeedsStartOfRunMemory ==
    /\ Did("style") =>
         /\ Truthy(memAtStart)
         /\ calls.style_memory = memAtStart
    /\ ~Truthy(memAtStart) =>
         /\ calls.style = 0
         /\ public_article = None
         /\ article_full_path = None
         /\ (pc = "done" /\ ctx.attach_format = "pdf" /\ Did("email")) =>
              (attachment_to_send = html_filename_full_path
               /\ pdf_full_path = None)

\* a run rewrote the memory document and then styled with the old one
C28_Witness ==
    /\ pc = "done"
    /\ Did("write_memory")
    /\ memFile /= memAtStart
    /\ calls.style = 1
    /\ calls.style_memory = memAtStart
    /\ calls.style_memory /= new_compressed_memory

\* C29: once the dispatch step of a run with recipients is over, the
\* attachment chosen is the converted PDF or else the saved HTML report, never
\* nothing, and exactly one mail was handed to the sender.
C29_AttachmentNeverAbsent ==
    (pc = "done" /\ ctx.email_list /= <<>>) =>
        /\ Did("email")
        /\ attachment_to_send /= None
        /\ attachment_to_send =
             (IF pdf_full_path /= None THEN pdf_full_path
              ELSE html_filename_full_path)
        /\ calls.email = 1

\* a pdf run whose conversion failed mailed the HTML report
C29_Witness ==
    /\ Did("email")
    /\ ctx.attach_format = "pdf"
    /\ article_full_path /= None
    /\ pdf_full_path = None
    /\ attachment_to_send = "GitReport.html"
    /\ calls.email = 1
====
